---- MODULE Spec2Model ----
(***************************************************************************)
(* A model of src/planner.c of timescaledb: the planner hook that rewrites *)
(* INSERT ModifyTable nodes on hypertables (modifytable_plan_walker,       *)
(* timescaledb_planner), the path-selection hook that applies the sort     *)
(* transform and wraps Append/MergeAppend paths of a hypertable in a       *)
(* constraint-aware append (timescaledb_set_rel_pathlist), and the         *)
(* installation of the two hooks (_planner_init, _planner_fini).           *)
(*                                                                         *)
(* PostgreSQL runs a backend single-threaded and each hook runs to its end *)
(* (or to an ereport(ERROR)) before anything else happens, so every hook   *)
(* is one action.  The calls a hook makes to code outside planner.c are    *)
(* recorded, in the order the code makes them, in outcome.calls.           *)
(***************************************************************************)
EXTENDS Integers, Sequences, FiniteSets, TLC

VARIABLES planner_hook, set_rel_pathlist_hook,
          prev_planner_hook, prev_set_rel_pathlist_hook,
          hooks_at_init, last_calls, invocation, outcome

vars == <<planner_hook, set_rel_pathlist_hook, prev_planner_hook,
          prev_set_rel_pathlist_hook, hooks_at_init, last_calls,
          invocation, outcome>>

hookvars == <<planner_hook, set_rel_pathlist_hook, prev_planner_hook,
              prev_set_rel_pathlist_hook, hooks_at_init>>

(***************************************************************************)
(* Bounds of the model.                                                    *)
(***************************************************************************)
\* plan nodes the walker is handed in one planned statement
MaxNodes == 2
\* (subplan, result relation) pairs of one ModifyTable
MaxPairs == 2
\* paths in rel->pathlist
MaxPaths == 2
\* clauses in rel->baserestrictinfo
MaxClauses == 1
\* entries of root->append_rel_list
MaxAppendRels == 3

(***************************************************************************)
(* Values of the host engine and of the catalog.                           *)
(***************************************************************************)
InvalidOid == 0
\* hypertable_cache_get_entry returning NULL
NoHypertable == 0
\* a NULL function pointer / a NULL pointer
NULL == "NULL"
\* the hook another extension registered
OtherPlannerHook == "other_planner_hook"
OtherPathlistHook == "other_set_rel_pathlist_hook"
\* this file's two hook functions, as values of the hook pointers
OwnPlannerHook == "timescaledb_planner"
OwnPathlistHook == "timescaledb_set_rel_pathlist"

\* the catalog: relids 1 and 2 are hypertables; 3 is a plain table and 4 a
\* foreign table
HypertableRelids == {1, 2}

\* the sequences over S of length n, and of lengths lo..hi
RECURSIVE SeqsOfLen(_, _)
SeqsOfLen(S, n) ==
    IF n = 0 THEN {<<>>}
    ELSE {Append(t, x) : t \in SeqsOfLen(S, n - 1), x \in S}

SeqsUpTo(S, lo, hi) == UNION {SeqsOfLen(S, n) : n \in lo..hi}

Count(seq, x) == Cardinality({i \in 1..Len(seq) : seq[i] = x})

(***************************************************************************)
(* Catalog cache and range table (callees of planner.c).                   *)
(***************************************************************************)
hypertable_cache_get_entry(relid) ==
    IF relid \in HypertableRelids THEN relid ELSE NoHypertable

rt_fetch(rti, rtable) == rtable[rti]

chunk_dispatch_plan_create(subplan, rti, relid, parse) ==
    [tag |-> "ChunkDispatch", subplan |-> subplan, hypertable_rti |-> rti,
     hypertable_relid |-> relid, parse |-> parse]

hypertable_insert_plan_create(mt) ==
    [tag |-> "HypertableInsert", mt |-> mt]

(***************************************************************************)
(* modifytable_plan_walker                                                 *)
(***************************************************************************)
\* ctx->parse->onConflict != NULL && ctx->parse->onConflict->constraint != InvalidOid
OnConflictInverted(parse) ==
    parse.onConflict.present /\ parse.onConflict.constraint = InvalidOid

OnConflictReferencesConstraint(parse) ==
    parse.onConflict.present /\ parse.onConflict.constraint # InvalidOid

\* the guard of the rewrite of one pair: ht != NULL
AnyRelationIsHypertable(ht) == TRUE

IsHypertable(ht) == ht # NoHypertable

\* One iteration of the forboth loop, on pair i.  acc is the loop's state:
\* the subplan list so far, hypertable_found, and whether ereport(ERROR) was
\* reached (which ends the loop and the hook).
forboth_step(acc, i, mt, ctx) ==
    LET rti == mt.resultRelations[i]
        rte == rt_fetch(rti, ctx.rtable)
        ht  == hypertable_cache_get_entry(rte.relid)
    IN  IF acc.error \/ ~IsHypertable(ht)
        THEN acc
        ELSE IF OnConflictReferencesConstraint(ctx.parse)
             THEN [acc EXCEPT !.error = TRUE]
             ELSE [acc EXCEPT
                     !.plans[i] = chunk_dispatch_plan_create(acc.plans[i], rti,
                                                            rte.relid, ctx.parse),
                     !.hypertable_found = TRUE]

\* forboth stops at the end of the shorter list
Min(a, b) == IF a <= b THEN a ELSE b

RECURSIVE forboth(_, _, _, _)
forboth(acc, i, mt, ctx) ==
    IF i > Min(Len(mt.plans), Len(mt.resultRelations))
    THEN acc
    ELSE forboth(forboth_step(acc, i, mt, ctx), i + 1, mt, ctx)

\* wraps the ModifyTable once per rewritten pair instead of once per node
WrapModifyTablePerPair(mt, acc) ==
    IF acc.hypertable_found
    THEN LET n == Cardinality({i \in 1..Len(acc.plans) :
                                  acc.plans[i].tag = "ChunkDispatch"})
             inner == [mt EXCEPT !.plans = acc.plans]
         IN  IF n >= 2
             THEN hypertable_insert_plan_create(hypertable_insert_plan_create(inner))
             ELSE hypertable_insert_plan_create(inner)
    ELSE [mt EXCEPT !.plans = acc.plans]

\* if (hypertable_found) *planptr = hypertable_insert_plan_create(mt);
WrapModifyTable(mt, acc) ==
    IF acc.hypertable_found
    THEN hypertable_insert_plan_create([mt EXCEPT !.plans = acc.plans])
    ELSE [mt EXCEPT !.plans = acc.plans]

\* The walker on the node in one slot: the node the slot holds afterwards and
\* whether the walker left by ereport(ERROR).
modifytable_plan_walker(plan, ctx) ==
    IF plan.tag = "ModifyTable" /\ plan.operation = "CMD_INSERT"
    THEN LET acc == forboth([plans |-> plan.plans, hypertable_found |-> FALSE,
                             error |-> FALSE], 1, plan, ctx)
         IN  IF acc.error
             THEN [plan |-> plan, error |-> TRUE]
             ELSE [plan |-> WrapModifyTable(plan, acc), error |-> FALSE]
    ELSE [plan |-> plan, error |-> FALSE]

\* planned_stmt_walker: calls the walker on every plan-node slot of the
\* statement, in order; an ereport(ERROR) in the walker ends the walk.
RECURSIVE planned_stmt_walker(_, _, _)
planned_stmt_walker(nodes, i, ctx) ==
    IF i > Len(nodes)
    THEN [nodes |-> nodes, error |-> FALSE]
    ELSE LET r == modifytable_plan_walker(nodes[i], ctx)
         IN  IF r.error
             THEN [nodes |-> nodes, error |-> TRUE]
             ELSE planned_stmt_walker([nodes EXCEPT ![i] = r.plan], i + 1, ctx)

(***************************************************************************)
(* timescaledb_planner                                                     *)
(***************************************************************************)
NoPlan == [nodes |-> <<>>, rtable |-> <<>>]

\* calls the earlier hook and the standard planner too (a missing else)
BaselineCallsBoth(prev) ==
    IF prev # NULL THEN <<"prev_planner_hook", "standard_planner">>
    ELSE <<"standard_planner">>

\* lines 151-160: the earlier hook if there is one, else the standard planner
BaselineCalls(prev) ==
    IF prev # NULL THEN <<"prev_planner_hook">> ELSE <<"standard_planner">>

\* The hook on statement `parse`, for which the baseline planner (the earlier
\* hook or standard_planner) returns `baseline`.  prev is prev_planner_hook
\* and loaded is extension_is_loaded().  When prev is this hook itself, the
\* call at line 154 re-enters the hook without end: the invocation does not
\* return.
timescaledb_planner(parse, baseline, prev, loaded) ==
    IF prev = OwnPlannerHook
    THEN [hook |-> OwnPlannerHook, status |-> "no_return", plan_stmt |-> NoPlan,
          calls |-> BaselineCalls(prev)]
    ELSE IF ~loaded
    THEN [hook |-> OwnPlannerHook, status |-> "returned", plan_stmt |-> baseline,
          calls |-> BaselineCalls(prev)]
    ELSE LET ctx == [parse |-> parse, rtable |-> baseline.rtable]
             w   == planned_stmt_walker(baseline.nodes, 1, ctx)
         IN  IF w.error
             THEN [hook |-> OwnPlannerHook, status |-> "error",
                   plan_stmt |-> NoPlan,
                   calls |-> BaselineCalls(prev) \o
                             <<"hypertable_cache_pin", "planned_stmt_walker",
                               "ereport">>]
             ELSE [hook |-> OwnPlannerHook, status |-> "returned",
                   plan_stmt |-> [baseline EXCEPT !.nodes = w.nodes],
                   calls |-> BaselineCalls(prev) \o
                             <<"hypertable_cache_pin", "planned_stmt_walker",
                               "cache_release">>]

(***************************************************************************)
(* Statements handed to the planner hook.                                  *)
(***************************************************************************)
\* no ON CONFLICT clause, one that infers its index from column names, and
\* one that names the constraint with oid 77
OnConflicts ==
    {[present |-> FALSE, constraint |-> InvalidOid],
     [present |-> TRUE, constraint |-> InvalidOid],
     [present |-> TRUE, constraint |-> 77]}

\* range tables: rti 1 and 2, each a hypertable or a plain table
RangeTables ==
    {<<[relid |-> 1], [relid |-> 3]>>,
     <<[relid |-> 3], [relid |-> 2]>>,
     <<[relid |-> 3], [relid |-> 3]>>}

Subplan(i) == [tag |-> "Result", id |-> i]

RECURSIVE Subplans(_)
Subplans(n) == IF n = 0 THEN <<>> ELSE Append(Subplans(n - 1), Subplan(n))

ModifyTables ==
    {[tag |-> "ModifyTable", operation |-> op,
      plans |-> Subplans(Len(rr)), resultRelations |-> rr] :
        op \in {"CMD_INSERT", "CMD_UPDATE"},
        rr \in SeqsUpTo({1, 2}, 1, MaxPairs)}

PlanNodes == ModifyTables \cup {[tag |-> "SeqScan"]}

\* the node lists of the planner specification
PlannerNodeLists == SeqsUpTo(PlanNodes, 1, MaxNodes)

(***************************************************************************)
(* Actions: hook installation and the planner hook.                        *)
(***************************************************************************)
NoInvocation == [hook |-> "none"]

\* last_calls holds the last two of the calls to _planner_init and
\* _planner_fini, and a bit that flips at each of them
Record(name) == last_calls' = <<last_calls[2], name, 1 - last_calls[3]>>

\* saves the hooks after installing its own
planner_init_save_after_install ==
    /\ invocation = NoInvocation
    /\ planner_hook' = OwnPlannerHook
    /\ prev_planner_hook' = OwnPlannerHook
    /\ set_rel_pathlist_hook' = OwnPathlistHook
    /\ prev_set_rel_pathlist_hook' = OwnPathlistHook
    /\ hooks_at_init' = <<planner_hook, set_rel_pathlist_hook>>
    /\ Record("_planner_init")
    /\ UNCHANGED <<invocation, outcome>>

_planner_init ==
    /\ invocation = NoInvocation
    /\ prev_planner_hook' = planner_hook
    /\ planner_hook' = OwnPlannerHook
    /\ prev_set_rel_pathlist_hook' = set_rel_pathlist_hook
    /\ set_rel_pathlist_hook' = OwnPathlistHook
    /\ hooks_at_init' = <<planner_hook, set_rel_pathlist_hook>>
    /\ Record("_planner_init")
    /\ UNCHANGED <<invocation, outcome>>

_planner_fini ==
    /\ invocation = NoInvocation
    /\ planner_hook' = prev_planner_hook
    /\ set_rel_pathlist_hook' = prev_set_rel_pathlist_hook
    /\ Record("_planner_fini")
    /\ UNCHANGED <<prev_planner_hook, prev_set_rel_pathlist_hook,
                   hooks_at_init, invocation, outcome>>

\* The host calls planner_hook; it is this file's hook.  The statement has
\* the ON CONFLICT clause oc; the baseline planner returns the nodes ns over
\* the range table rt.
PlannerCall(nodeLists) ==
    /\ planner_hook = OwnPlannerHook
    /\ invocation = NoInvocation
    /\ \E oc \in OnConflicts, ns \in nodeLists, rt \in RangeTables,
          loaded \in BOOLEAN :
          LET parse == [onConflict |-> oc]
              baseline == [nodes |-> ns, rtable |-> rt]
          IN  /\ invocation' = [hook |-> OwnPlannerHook, parse |-> parse,
                                baseline |-> baseline, loaded |-> loaded]
              /\ outcome' = timescaledb_planner(parse, baseline,
                                                prev_planner_hook, loaded)
    /\ UNCHANGED <<hookvars, last_calls>>

\* The hook has returned (or its error has unwound to the host): the backend
\* is ready for the next call.
HostReturn ==
    /\ invocation # NoInvocation
    /\ invocation' = NoInvocation
    /\ outcome' = NoInvocation
    /\ UNCHANGED <<hookvars, last_calls>>

PlannerStep == PlannerCall(PlannerNodeLists)

\* after _planner_init, with or without an earlier planner hook
InitPlanner ==
    /\ planner_hook = OwnPlannerHook
    /\ set_rel_pathlist_hook = OwnPathlistHook
    /\ prev_planner_hook \in {NULL, OtherPlannerHook}
    /\ prev_set_rel_pathlist_hook = NULL
    /\ hooks_at_init = <<prev_planner_hook, prev_set_rel_pathlist_hook>>
    /\ last_calls = <<"none", "_planner_init", 1>>
    /\ invocation = NoInvocation
    /\ outcome = NoInvocation

NextPlanner == PlannerStep \/ HostReturn

SpecPlanner == InitPlanner /\ [][NextPlanner]_vars

(***************************************************************************)
(* timescaledb_set_rel_pathlist and its helpers                            *)
(***************************************************************************)
NoPath == [pathtype |-> "NULL", subpaths |-> 0]

\* IsA(p, AppendPath) && subpaths == NIL
IS_DUMMY_PATH(p) == p.pathtype = "T_AppendPath" /\ p.subpaths = 0

\* cheapest_total_path != NULL && IS_DUMMY_PATH(cheapest_total_path)
IS_DUMMY_REL(rel) ==
    rel.cheapest_total_path # NoPath /\ IS_DUMMY_PATH(rel.cheapest_total_path)

OidIsValid(oid) == oid # InvalidOid

should_optimize_query(ht, guc) ==
    ~guc.disable_optimizations /\
    (guc.optimize_non_hypertables \/ ht # NoHypertable)

contain_mutable_functions(clause) == clause.mutable

\* ignores the constraint_aware_append flag
should_optimize_append_ignoring_flag(rel, guc) ==
    IF guc.constraint_exclusion = "CONSTRAINT_EXCLUSION_OFF"
    THEN FALSE
    ELSE \E i \in 1..Len(rel.baserestrictinfo) :
            contain_mutable_functions(rel.baserestrictinfo[i])

\* rel is path->parent
should_optimize_append(rel, guc) ==
    IF ~guc.constraint_aware_append \/
       guc.constraint_exclusion = "CONSTRAINT_EXCLUSION_OFF"
    THEN FALSE
    ELSE \E i \in 1..Len(rel.baserestrictinfo) :
            contain_mutable_functions(rel.baserestrictinfo[i])

is_append_child(rel, rte) ==
    /\ rel.reloptkind = "RELOPT_OTHER_MEMBER_REL"
    /\ rte.inh = FALSE
    /\ rel.rtekind = "RTE_RELATION"
    /\ rte.relkind = "RELKIND_RELATION"

is_append_parent(rel, rte) ==
    /\ rel.reloptkind = "RELOPT_BASEREL"
    /\ rte.inh = TRUE
    /\ rel.rtekind = "RTE_RELATION"
    /\ rte.relkind = "RELKIND_RELATION"

constraint_aware_append_path_create(ht, path) ==
    [pathtype |-> "T_CustomPath", methods |-> "ConstraintAwareAppend",
     hypertable |-> ht, subpath |-> path]

\* stops after the first child of the hypertable
RECURSIVE sibling_rels_first_only(_, _, _)
sibling_rels_first_only(append_rel_list, i, relid) ==
    IF i > Len(append_rel_list) THEN <<>>
    ELSE IF append_rel_list[i].parent_reloid # relid
         THEN sibling_rels_first_only(append_rel_list, i + 1, relid)
         ELSE <<append_rel_list[i].child_relid>>

\* lines 275-289: the relations sort_transform_optimization is called on, in
\* the order of root->append_rel_list, from entry i on
RECURSIVE sibling_rels(_, _, _)
sibling_rels(append_rel_list, i, relid) ==
    IF i > Len(append_rel_list) THEN <<>>
    ELSE IF append_rel_list[i].parent_reloid # relid
         THEN sibling_rels(append_rel_list, i + 1, relid)
         ELSE <<append_rel_list[i].child_relid>> \o
              sibling_rels(append_rel_list, i + 1, relid)

\* lines 257-290: the relations the sort transform is applied to
sort_transform_targets(root, rel, rte, ht, guc) ==
    IF guc.optimize_non_hypertables
    THEN <<rel.relid>>
    ELSE IF ht # NoHypertable /\ is_append_child(rel, rte)
         THEN sibling_rels(root.append_rel_list, 1, rte.relid)
         ELSE <<>>

\* lines 310-318: the switch on one entry of rel->pathlist
wrap_path(path, rel, ht, guc) ==
    IF path.pathtype \in {"T_AppendPath", "T_MergeAppendPath"} /\
       should_optimize_append(rel, guc)
    THEN constraint_aware_append_path_create(ht, path)
    ELSE path

RECURSIVE wrap_pathlist(_, _, _, _, _)
wrap_pathlist(pathlist, i, rel, ht, guc) ==
    IF i > Len(pathlist) THEN pathlist
    ELSE wrap_pathlist([pathlist EXCEPT ![i] = wrap_path(pathlist[i], rel, ht, guc)],
                       i + 1, rel, ht, guc)

\* wraps on the relation not being the result relation
wraps_unless_result_relation(root, rel, rti, rte, ht) ==
    ht # NoHypertable /\ is_append_parent(rel, rte) /\ rti # root.resultRelation

\* lines 292-301: the condition of the wrapping loop
wraps_paths(root, rel, rti, rte, ht) ==
    ht # NoHypertable /\ is_append_parent(rel, rte) /\ 0 = root.resultRelation

\* lines 241-242
PrevPathlistCalls(prev) ==
    IF prev # NULL THEN <<"prev_set_rel_pathlist_hook">> ELSE <<>>

RECURSIVE Repeat(_, _)
Repeat(x, n) == IF n = 0 THEN <<>> ELSE <<x>> \o Repeat(x, n - 1)

CountWrapped(pathlist) ==
    Cardinality({i \in 1..Len(pathlist) : pathlist[i].pathtype = "T_CustomPath"})

\* line 244
early_return(rel, rte, loaded) ==
    ~loaded \/ IS_DUMMY_REL(rel) \/ ~OidIsValid(rte.relid)

\* The hook on relation rel (range-table index rti, entry rte) of the query
\* root.  env holds prev_set_rel_pathlist_hook, extension_is_loaded() and the
\* GUCs.  The outcome holds rel->pathlist as the hook leaves it and the
\* relations sort_transform_optimization was called on.
timescaledb_set_rel_pathlist(root, rel, rti, rte, env) ==
    LET guc    == env.guc
        ht     == hypertable_cache_get_entry(rte.relid)
        sorted == sort_transform_targets(root, rel, rte, ht, guc)
        wrapped == IF wraps_paths(root, rel, rti, rte, ht)
                   THEN wrap_pathlist(rel.pathlist, 1, rel, ht, guc)
                   ELSE rel.pathlist
        out(status, pathlist, sorted_rels, calls) ==
            [hook |-> OwnPathlistHook, status |-> status, pathlist |-> pathlist,
             sorted |-> sorted_rels,
             calls |-> PrevPathlistCalls(env.prev) \o calls]
    IN  IF env.prev = OwnPathlistHook
        THEN out("no_return", rel.pathlist, <<>>, <<>>)
        ELSE IF early_return(rel, rte, env.loaded)
        THEN out("returned", rel.pathlist, <<>>, <<>>)
        ELSE IF ~guc.optimize_non_hypertables /\
                ~(is_append_parent(rel, rte) \/ is_append_child(rel, rte))
        THEN out("returned", rel.pathlist, <<>>, <<>>)
        ELSE IF ~should_optimize_query(ht, guc)
        THEN out("returned", rel.pathlist, <<>>,
                 <<"hypertable_cache_pin", "hypertable_cache_get_entry",
                   "cache_release">>)
        ELSE out("returned", wrapped, sorted,
                 <<"hypertable_cache_pin", "hypertable_cache_get_entry">> \o
                 Repeat("sort_transform_optimization", Len(sorted)) \o
                 Repeat("constraint_aware_append_path_create",
                        CountWrapped(wrapped)) \o
                 <<"cache_release">>)

(***************************************************************************)
(* Relations handed to the path-selection hook.                            *)
(***************************************************************************)
DummyPath == [pathtype |-> "T_AppendPath", subpaths |-> 0]

\* the paths of a relation not proven empty; an Append has two children here
Paths ==
    {[pathtype |-> "T_AppendPath", subpaths |-> 2],
     [pathtype |-> "T_MergeAppendPath", subpaths |-> 2],
     [pathtype |-> "T_IndexPath", subpaths |-> 0]}

\* pathlist and cheapest_total_path when the hook is called: a relation proven
\* empty holds the one dummy path, set as cheapest by set_dummy_rel_pathlist;
\* any other has no cheapest path yet (set_cheapest runs after the hook)
PathStates(maxPaths) ==
    {[pathlist |-> <<DummyPath>>, cheapest_total_path |-> DummyPath]} \cup
    {[pathlist |-> pl, cheapest_total_path |-> NoPath] :
        pl \in SeqsUpTo(Paths, 0, maxPaths)}

Clauses == {[mutable |-> TRUE], [mutable |-> FALSE]}

\* the range-table entry kinds: a hypertable, a plain table, a foreign table,
\* a subquery (no relid)
RteKinds ==
    {[rtekind |-> "RTE_RELATION", relkind |-> "RELKIND_RELATION", relid |-> 1],
     [rtekind |-> "RTE_RELATION", relkind |-> "RELKIND_RELATION", relid |-> 3],
     [rtekind |-> "RTE_RELATION", relkind |-> "RELKIND_FOREIGN_TABLE", relid |-> 4],
     [rtekind |-> "RTE_SUBQUERY", relkind |-> "none", relid |-> InvalidOid]}

Gucs(caa, ce) ==
    {[disable_optimizations |-> d, optimize_non_hypertables |-> o,
      constraint_aware_append |-> c, constraint_exclusion |-> e] :
        d \in BOOLEAN, o \in BOOLEAN, c \in caa, e \in ce}

AppendRelInfos ==
    {[parent_reloid |-> p, child_relid |-> c] : p \in HypertableRelids, c \in {2, 3, 4}}

\* three sibling leaves of hypertable 1, among them a leaf of hypertable 2
DefaultAppendRelList ==
    <<[parent_reloid |-> 1, child_relid |-> 2],
      [parent_reloid |-> 2, child_relid |-> 5],
      [parent_reloid |-> 1, child_relid |-> 3],
      [parent_reloid |-> 1, child_relid |-> 4]>>

AllGucs ==
    Gucs(BOOLEAN, {"CONSTRAINT_EXCLUSION_OFF", "CONSTRAINT_EXCLUSION_ON",
                   "CONSTRAINT_EXCLUSION_PARTITION"})

FlagsOnGucs == Gucs({TRUE}, {"CONSTRAINT_EXCLUSION_PARTITION"})

RelOptKinds == {"RELOPT_BASEREL", "RELOPT_OTHER_MEMBER_REL"}

\* the inputs of the wrapping specification: every path list and clause list
WrapPathStates == PathStates(MaxPaths)

WrapClauseLists == SeqsUpTo(Clauses, 0, MaxClauses)

\* the query's result relation: none (0), the relation itself (1), another (2)
WrapResultRelations == {0, 1, 2}

\* the inputs of the sort-transform specification: every append_rel_list
SortPathStates == PathStates(0)

SortAppendRelLists == SeqsUpTo(AppendRelInfos, 0, MaxAppendRels)

\* The host calls set_rel_pathlist_hook; it is this file's hook.  The relation
\* is rti 1 of the query.
PathlistCall(pathStates, clauseLists, appendRelLists, gucs, resultRelations) ==
    /\ set_rel_pathlist_hook = OwnPathlistHook
    /\ invocation = NoInvocation
    /\ \E rr \in resultRelations, arl \in appendRelLists, rok \in RelOptKinds,
          k \in RteKinds, inh \in BOOLEAN, ps \in pathStates,
          cl \in clauseLists, loaded \in BOOLEAN, guc \in gucs :
          LET root == [resultRelation |-> rr, append_rel_list |-> arl]
              rel  == [relid |-> 1, reloptkind |-> rok, rtekind |-> k.rtekind,
                       pathlist |-> ps.pathlist,
                       cheapest_total_path |-> ps.cheapest_total_path,
                       baserestrictinfo |-> cl]
              rte  == [relid |-> k.relid, inh |-> inh, relkind |-> k.relkind,
                       rtekind |-> k.rtekind]
          IN  /\ invocation' = [hook |-> OwnPathlistHook, root |-> root,
                                rel |-> rel, rti |-> 1, rte |-> rte,
                                loaded |-> loaded, guc |-> guc]
              /\ outcome' = timescaledb_set_rel_pathlist(
                                root, rel, 1, rte,
                                [prev |-> prev_set_rel_pathlist_hook,
                                 loaded |-> loaded, guc |-> guc])
    /\ UNCHANGED <<hookvars, last_calls>>

WrapStep ==
    PathlistCall(WrapPathStates, WrapClauseLists, {DefaultAppendRelList},
                 AllGucs, WrapResultRelations)

SortStep ==
    PathlistCall(SortPathStates, {<<>>}, SortAppendRelLists, FlagsOnGucs, {0})

\* after _planner_init, with no earlier path-selection hook
InitPath ==
    /\ planner_hook = OwnPlannerHook
    /\ set_rel_pathlist_hook = OwnPathlistHook
    /\ prev_planner_hook = NULL
    /\ prev_set_rel_pathlist_hook = NULL
    /\ hooks_at_init = <<prev_planner_hook, prev_set_rel_pathlist_hook>>
    /\ last_calls = <<"none", "_planner_init", 1>>
    /\ invocation = NoInvocation
    /\ outcome = NoInvocation

NextPath == WrapStep \/ HostReturn

SpecPath == InitPath /\ [][NextPath]_vars

NextSort == SortStep \/ HostReturn

SpecSort == InitPath /\ [][NextSort]_vars

(***************************************************************************)
(* The whole life of the hooks: any sequence of _planner_init and          *)
(* _planner_fini, and the host calling the hooks while they are installed. *)
(***************************************************************************)
\* one-node statements
LifecycleNodeLists == SeqsUpTo(PlanNodes, 1, 1)

\* relations with at most one path
LifecyclePathStates == PathStates(1)

LifecyclePlannerStep == PlannerCall(LifecycleNodeLists)

LifecyclePathStep ==
    PathlistCall(LifecyclePathStates, {<<[mutable |-> TRUE]>>},
                 {DefaultAppendRelList}, FlagsOnGucs, {0})

\* before the library is loaded: each hook is unset or another extension's
Init ==
    /\ planner_hook \in {NULL, OtherPlannerHook}
    /\ set_rel_pathlist_hook \in {NULL, OtherPathlistHook}
    /\ prev_planner_hook = NULL
    /\ prev_set_rel_pathlist_hook = NULL
    /\ hooks_at_init = <<NULL, NULL>>
    /\ last_calls = <<"none", "none", 0>>
    /\ invocation = NoInvocation
    /\ outcome = NoInvocation

Next ==
    \/ _planner_init
    \/ _planner_fini
    \/ LifecyclePlannerStep
    \/ LifecyclePathStep
    \/ HostReturn

Spec == Init /\ [][Next]_vars

(***************************************************************************)
(* Properties.                                                             *)
(***************************************************************************)
PlannerRan == invocation.hook = OwnPlannerHook

PathlistRan == invocation.hook = OwnPathlistHook

IsInsert(node) == node.tag = "ModifyTable" /\ node.operation = "CMD_INSERT"

\* result relation i of ModifyTable mt is a hypertable of the catalog
ResolvesToHypertable(mt, i, rtable) ==
    rtable[mt.resultRelations[i]].relid \in HypertableRelids

TargetsHypertable(mt, rtable) ==
    \E i \in 1..Len(mt.resultRelations) : ResolvesToHypertable(mt, i, rtable)

NamesConstraint(parse) ==
    parse.onConflict.present /\ parse.onConflict.constraint # InvalidOid

\* C1: with the extension loaded, a statement whose ON CONFLICT clause names a
\* constraint and one of whose INSERT ModifyTable nodes has a hypertable among
\* its result relations, at whatever position, ends planning in the error and
\* no plan is returned.
C1_ConflictTargetRejected ==
    (/\ PlannerRan
     /\ invocation.loaded
     /\ NamesConstraint(invocation.parse)
     /\ \E n \in 1..Len(invocation.baseline.nodes) :
           /\ IsInsert(invocation.baseline.nodes[n])
           /\ TargetsHypertable(invocation.baseline.nodes[n],
                                invocation.baseline.rtable))
    => (outcome.status = "error" /\ outcome.plan_stmt = NoPlan)

\* the hypertable is the second result relation, after a plain table
C1_Witness ==
    /\ PlannerRan
    /\ invocation.loaded
    /\ NamesConstraint(invocation.parse)
    /\ \E n \in 1..Len(invocation.baseline.nodes) :
          LET mt == invocation.baseline.nodes[n]
          IN  /\ IsInsert(mt)
              /\ Len(mt.resultRelations) = 2
              /\ ~ResolvesToHypertable(mt, 1, invocation.baseline.rtable)
              /\ ResolvesToHypertable(mt, 2, invocation.baseline.rtable)
    /\ outcome.status = "error"
    /\ outcome.plan_stmt = NoPlan

\* a ModifyTable that is not an INSERT, or none of whose result relations is a
\* hypertable
Passthrough(node, rtable) ==
    /\ node.tag = "ModifyTable"
    /\ (node.operation # "CMD_INSERT" \/ ~TargetsHypertable(node, rtable))

\* C2: a ModifyTable that is not an INSERT or has no hypertable among its
\* result relations is in its slot, unchanged, in the returned plan; the
\* walker's visit to it raises no error, whatever the ON CONFLICT clause; and
\* a statement all of whose ModifyTable nodes are such is planned without
\* error and its plan is the baseline plan.
C2_NonPartitionedPassthrough ==
    PlannerRan =>
      LET nodes == invocation.baseline.nodes
          rtable == invocation.baseline.rtable
      IN  /\ outcome.status = "returned" =>
                \A n \in 1..Len(nodes) :
                    Passthrough(nodes[n], rtable) =>
                        outcome.plan_stmt.nodes[n] = nodes[n]
          /\ \A n \in 1..Len(nodes) :
                Passthrough(nodes[n], rtable) =>
                    modifytable_plan_walker(
                        nodes[n], [parse |-> invocation.parse, rtable |-> rtable])
                    = [plan |-> nodes[n], error |-> FALSE]
          /\ (\A n \in 1..Len(nodes) :
                  nodes[n].tag = "ModifyTable" => Passthrough(nodes[n], rtable))
             => (outcome.status = "returned" /\
                 outcome.plan_stmt = invocation.baseline)

\* an INSERT into plain tables only, with ON CONFLICT ON CONSTRAINT, beside a
\* rewritten node or not
C2_Witness ==
    /\ PlannerRan
    /\ invocation.loaded
    /\ NamesConstraint(invocation.parse)
    /\ outcome.status = "returned"
    /\ \E n \in 1..Len(invocation.baseline.nodes) :
          /\ IsInsert(invocation.baseline.nodes[n])
          /\ ~TargetsHypertable(invocation.baseline.nodes[n],
                                invocation.baseline.rtable)
          /\ outcome.plan_stmt.nodes[n] = invocation.baseline.nodes[n]

\* what slot i of the subplan list must hold after the rewrite
ExpectedSubplan(mt, i, rtable, parse) ==
    IF ResolvesToHypertable(mt, i, rtable)
    THEN [tag |-> "ChunkDispatch", subplan |-> mt.plans[i],
          hypertable_rti |-> mt.resultRelations[i],
          hypertable_relid |-> rtable[mt.resultRelations[i]].relid,
          parse |-> parse]
    ELSE mt.plans[i]

\* C3: in the plan the hook returns, the slot of every INSERT ModifyTable
\* holds that ModifyTable, wrapped in one HypertableInsert if and only if one
\* of its result relations is a hypertable; its result relations are
\* unchanged, its subplan list has the same length, and subplan i is a
\* ChunkDispatch over the original subplan i, with result relation i's
\* range-table index and relid, if result relation i is a hypertable, and the
\* original subplan i otherwise.
C3_InsertRewriteShape ==
    (PlannerRan /\ invocation.loaded /\ outcome.status = "returned") =>
      \A n \in 1..Len(invocation.baseline.nodes) :
        IsInsert(invocation.baseline.nodes[n]) =>
          LET mt == invocation.baseline.nodes[n]
              rtable == invocation.baseline.rtable
              slot == outcome.plan_stmt.nodes[n]
              wrapped == slot.tag = "HypertableInsert"
              inner == IF wrapped THEN slot.mt ELSE slot
          IN  /\ inner.tag = "ModifyTable"
              /\ inner.operation = mt.operation
              /\ inner.resultRelations = mt.resultRelations
              /\ Len(inner.plans) = Len(mt.plans)
              /\ \A i \in 1..Len(mt.plans) :
                    inner.plans[i] =
                        ExpectedSubplan(mt, i, rtable, invocation.parse)
              /\ wrapped <=> TargetsHypertable(mt, rtable)

\* a ModifyTable with a hypertable and a plain table: one subplan rewritten,
\* one not, one wrapper
C3_Witness ==
    /\ PlannerRan
    /\ outcome.status = "returned"
    /\ \E n \in 1..Len(invocation.baseline.nodes) :
          LET mt == invocation.baseline.nodes[n]
              slot == outcome.plan_stmt.nodes[n]
          IN  /\ IsInsert(mt)
              /\ Len(mt.plans) = 2
              /\ slot.tag = "HypertableInsert"
              /\ slot.mt.plans[1].tag = "ChunkDispatch"
              /\ slot.mt.plans[2] = mt.plans[2]

\* C4: when a hook has ended, by returning or by the ON CONFLICT error, the
\* catalog cache was pinned at most once and released as often as pinned.
C4_HandleReleasedOnce ==
    invocation # NoInvocation =>
      /\ Count(outcome.calls, "hypertable_cache_pin") <= 1
      /\ Count(outcome.calls, "cache_release") =
             Count(outcome.calls, "hypertable_cache_pin")

IsDummy(rel) ==
    /\ rel.cheapest_total_path # NoPath
    /\ rel.cheapest_total_path.pathtype = "T_AppendPath"
    /\ rel.cheapest_total_path.subpaths = 0

IsWrapperOf(p, path, relid) ==
    p = [pathtype |-> "T_CustomPath", methods |-> "ConstraintAwareAppend",
         hypertable |-> relid, subpath |-> path]

\* the conditions C5 lists, for entry i of the path list
ListedConditions(i) ==
    /\ invocation.loaded
    /\ ~invocation.guc.disable_optimizations
    /\ invocation.rte.relid \in HypertableRelids
    /\ invocation.rel.reloptkind = "RELOPT_BASEREL"
    /\ invocation.rte.inh
    /\ invocation.rel.rtekind = "RTE_RELATION"
    /\ invocation.rte.relkind = "RELKIND_RELATION"
    /\ invocation.rel.pathlist[i].pathtype \in {"T_AppendPath", "T_MergeAppendPath"}
    /\ invocation.guc.constraint_aware_append
    /\ invocation.guc.constraint_exclusion # "CONSTRAINT_EXCLUSION_OFF"
    /\ \E j \in 1..Len(invocation.rel.baserestrictinfo) :
          invocation.rel.baserestrictinfo[j].mutable

\* the path list after the hook: the same length, entry i the wrapper of the
\* original entry i where Wraps(i), and the original entry i elsewhere
WrappedExactlyWhere(Wraps(_)) ==
    /\ Len(outcome.pathlist) = Len(invocation.rel.pathlist)
    /\ \A i \in 1..Len(invocation.rel.pathlist) :
          IF Wraps(i)
          THEN IsWrapperOf(outcome.pathlist[i], invocation.rel.pathlist[i],
                           invocation.rte.relid)
          ELSE outcome.pathlist[i] = invocation.rel.pathlist[i]

\* C5 as claimed: an entry is replaced by its wrapper if and only if the
\* listed conditions hold.
C5_WrappedIffListed ==
    PathlistRan => WrappedExactlyWhere(ListedConditions)

AmendedConditions(i) ==
    /\ ListedConditions(i)
    /\ ~IsDummy(invocation.rel)
    /\ invocation.root.resultRelation = 0

\* C5 as amended: an entry is replaced by its wrapper if and only if the
\* listed conditions hold, the relation is not proven empty, and the query
\* has no result relation; every other entry is as it was, and the list keeps
\* its length and order.
C5_WrappedIffListedNotDummyNoResultRelation ==
    PathlistRan => WrappedExactlyWhere(AmendedConditions)

\* an Append wrapped beside an index path left alone
C5_Witness ==
    /\ PathlistRan
    /\ Len(invocation.rel.pathlist) = 2
    /\ AmendedConditions(1)
    /\ outcome.pathlist[1].pathtype = "T_CustomPath"
    /\ outcome.pathlist[1].subpath = invocation.rel.pathlist[1]
    /\ invocation.rel.pathlist[2].pathtype = "T_IndexPath"
    /\ outcome.pathlist[2] = invocation.rel.pathlist[2]

\* a qualifying path of a hypertable inheritance parent that is not proven
\* empty
QualifyingPath(i) == ListedConditions(i) /\ ~IsDummy(invocation.rel)

\* C6 as claimed: a qualifying path is wrapped if and only if the relation is
\* not the query's result relation.
C6_WrappedIffNotWriteTarget ==
    PathlistRan =>
      \A i \in 1..Len(invocation.rel.pathlist) :
        QualifyingPath(i) =>
          (IsWrapperOf(outcome.pathlist[i], invocation.rel.pathlist[i],
                       invocation.rte.relid)
           <=> invocation.root.resultRelation # invocation.rti)

\* C6 as amended: a qualifying path is wrapped if and only if the query has no
\* result relation at all; so it is never wrapped for the write target, and
\* not for a hypertable read by a query that writes to another relation.
C6_WrappedIffNoResultRelation ==
    PathlistRan =>
      \A i \in 1..Len(invocation.rel.pathlist) :
        QualifyingPath(i) =>
          /\ IsWrapperOf(outcome.pathlist[i], invocation.rel.pathlist[i],
                         invocation.rte.relid)
             <=> invocation.root.resultRelation = 0
          /\ invocation.root.resultRelation # 0 =>
                outcome.pathlist[i] = invocation.rel.pathlist[i]

\* the query writes to another relation and the hypertable's Append is left
\* unwrapped
C6_Witness ==
    /\ PathlistRan
    /\ invocation.root.resultRelation \notin {0, invocation.rti}
    /\ \E i \in 1..Len(invocation.rel.pathlist) :
          /\ QualifyingPath(i)
          /\ outcome.pathlist[i] = invocation.rel.pathlist[i]

\* the hook is called for the leaf that is the hypertable's own table, with
\* optimizations enabled and not for all tables
FirstLeafOfHypertable ==
    /\ PathlistRan
    /\ ~invocation.guc.disable_optimizations
    /\ ~invocation.guc.optimize_non_hypertables
    /\ invocation.rel.reloptkind = "RELOPT_OTHER_MEMBER_REL"
    /\ ~invocation.rte.inh
    /\ invocation.rel.rtekind = "RTE_RELATION"
    /\ invocation.rte.relkind = "RELKIND_RELATION"
    /\ invocation.rte.relid \in HypertableRelids

\* the sort transform was applied to every child of the hypertable in
\* append_rel_list and to nothing else
TransformOnSiblingsOnly ==
    LET arl == invocation.root.append_rel_list
    IN  /\ \A j \in 1..Len(arl) :
              arl[j].parent_reloid = invocation.rte.relid =>
                  \E k \in 1..Len(outcome.sorted) :
                      outcome.sorted[k] = arl[j].child_relid
        /\ \A k \in 1..Len(outcome.sorted) :
              \E j \in 1..Len(arl) :
                  /\ arl[j].child_relid = outcome.sorted[k]
                  /\ arl[j].parent_reloid = invocation.rte.relid

\* C7 as claimed: whenever the hook is called for the leaf that is the
\* hypertable's own table, with optimizations enabled and not for all tables,
\* the sort transform is applied to every sibling leaf of that hypertable in
\* append_rel_list and to nothing else.
C7_TransformPropagates ==
    FirstLeafOfHypertable => TransformOnSiblingsOnly

\* C7 as amended: with the extension loaded and the leaf not proven empty.
C7_TransformPropagatesWhenLoadedNotDummy ==
    (FirstLeafOfHypertable /\ invocation.loaded /\ ~IsDummy(invocation.rel))
    => TransformOnSiblingsOnly

\* three sibling leaves under the hypertable, all three transformed
C7_Witness ==
    /\ FirstLeafOfHypertable
    /\ invocation.loaded
    /\ ~IsDummy(invocation.rel)
    /\ LET arl == invocation.root.append_rel_list
       IN  /\ Len(arl) = 3
           /\ \A j \in 1..3 : arl[j].parent_reloid = invocation.rte.relid
           /\ {arl[j].child_relid : j \in 1..3} = {2, 3, 4}
    /\ {outcome.sorted[k] : k \in 1..Len(outcome.sorted)} = {2, 3, 4}

BaselinePlannerCalls(calls) ==
    Count(calls, "prev_planner_hook") + Count(calls, "standard_planner")

\* C8: the planner hook's first call is to the baseline planner, the earlier
\* hook if one was saved and the standard planner otherwise, and it calls no
\* baseline planner again; the path-selection hook's first call is to the
\* earlier hook if one was saved, once, and it is never called otherwise;
\* loaded or not.
C8_ChainsFirstAndOnce ==
    /\ PlannerRan =>
          /\ Len(outcome.calls) >= 1
          /\ outcome.calls[1] = IF prev_planner_hook # NULL
                                THEN "prev_planner_hook"
                                ELSE "standard_planner"
          /\ BaselinePlannerCalls(outcome.calls) = 1
    /\ PathlistRan =>
          IF prev_set_rel_pathlist_hook # NULL
          THEN /\ Len(outcome.calls) >= 1
               /\ outcome.calls[1] = "prev_set_rel_pathlist_hook"
               /\ Count(outcome.calls, "prev_set_rel_pathlist_hook") = 1
          ELSE Count(outcome.calls, "prev_set_rel_pathlist_hook") = 0

\* the earlier planner hook is called before the pin, with the extension
\* loaded
C8_Witness ==
    /\ PlannerRan
    /\ invocation.loaded
    /\ prev_planner_hook = OtherPlannerHook
    /\ Len(outcome.calls) >= 2
    /\ outcome.calls[1] = "prev_planner_hook"
    /\ outcome.calls[2] = "hypertable_cache_pin"

\* a step of the named function
IsCallOf(name) == last_calls'[3] # last_calls[3] /\ last_calls'[2] = name

\* C9: _planner_init installs this file's two hooks, and a _planner_fini that
\* follows it sets both hooks to the values they held before that
\* _planner_init.
C9_SaveRestoreRoundTrip ==
    [][/\ IsCallOf("_planner_init") =>
             /\ planner_hook' = OwnPlannerHook
             /\ set_rel_pathlist_hook' = OwnPathlistHook
             /\ hooks_at_init' = <<planner_hook, set_rel_pathlist_hook>>
       /\ (IsCallOf("_planner_fini") /\ last_calls[2] = "_planner_init") =>
             /\ planner_hook' = hooks_at_init[1]
             /\ set_rel_pathlist_hook' = hooks_at_init[2]]_vars

\* an earlier planner hook and no earlier path-selection hook, both restored
C9_Witness ==
    /\ last_calls[1] = "_planner_init"
    /\ last_calls[2] = "_planner_fini"
    /\ hooks_at_init = <<OtherPlannerHook, NULL>>
    /\ planner_hook = OtherPlannerHook
    /\ set_rel_pathlist_hook = NULL

\* C10: the saved hooks are never this file's own hooks, and no invocation of
\* a hook chains to itself.
C10_NeverSavesOwnHook ==
    /\ prev_planner_hook # OwnPlannerHook
    /\ prev_set_rel_pathlist_hook # OwnPathlistHook
    /\ invocation # NoInvocation => outcome.status # "no_return"

====
